---- MODULE Spec2Model ----
(***************************************************************************)
(* A model of the file-sharing backend (src/unnamed/part_002, the revision *)
(* that tracks receivedChunksMap, with src/server.js as the older          *)
(* revision): the upload-session registry, the chunk store, the assembler  *)
(* of POST /api/upload/complete, the metadata store db.json, the           *)
(* single-file download and the hourly cleanup job.                        *)
(*                                                                         *)
(* Node runs every handler on one thread: a step of the model is one       *)
(* synchronous run of a handler or callback, from the event that starts it *)
(* to its next await, stream event or return.                              *)
(*                                                                         *)
(* Time is counted in units of 12 hours, sizes in KiB.                     *)
(***************************************************************************)
EXTENDS Integers, Sequences, FiniteSets

\* ---------------------------------------------------------------- bounds
MaxSessions == 2        \* init calls in one run
MaxInFlight == 2        \* chunk uploads whose write is in flight at once
MaxCompletions == 2     \* completion calls suspended at an await at once
MaxTotalChunks == 2     \* largest totalChunks a client declares
MaxTime == 3            \* clock readings 0..MaxTime
MaxFiles == 2           \* FileRecords in db.files
MaxGroups == 1          \* GroupRecords in db.groups

\* ------------------------------------------------------ program constants
Retention == 2          \* 24 * 60 * 60 * 1000 ms, in units of 12 h
CompressMin == 10       \* 10 * 1024 bytes, in KiB

\* ------------------------------------------------------------ input sets
UploadIds == {"u1", "u2"}
ChunkIndexStrs == {"0", "1", "2", "01"}   \* the form field chunkIndex, as sent
Payloads == {"A", "B"}                    \* non-empty chunk bodies
EmptyPayload == ""                        \* a chunk file of size 0
NoFile == "-"                             \* a request without the field chunk
ChunkBodies == Payloads \cup {EmptyPayload, NoFile}
Codes == {"c1", "c2"}                     \* values of crypto.randomBytes(3)
FileSizes == {5, 10}                      \* declared fileSize

VARIABLES
    chunkedUploads,   \* uploadId -> reference to a session object, 0 = absent
    sessions,         \* the session objects still referenced: ref -> fields
    nextRef,          \* the next session object to be allocated
    temp,             \* chunks/temp: the files multer stored and nobody unlinked
    chunkDirs,        \* chunks/<uploadId>: exists, files (name -> body)
    writes,           \* chunk uploads between arrival and 'finish'
    completions,      \* completion calls suspended at an await
    cleanups,         \* uploadId -> pending setTimeout chunk-directory removals
    uploads,          \* uploads/: stored filename -> artifact
    db,               \* db.json: files, groups
    now,              \* Date.now()
    singles,          \* single-shot uploads suspended at an await
    evicted,          \* uploadId -> how its last session left the registry
    resp,             \* the response sent by the last step, if any
    legacy            \* the older revision src/server.js, given the same calls

vars == <<chunkedUploads, sessions, nextRef, temp, chunkDirs, writes, completions,
          cleanups, singles, uploads, db, now, evicted, resp, legacy>>

NoSession == 0
Null == -1         \* null in a record or a response
NoResp == [op |-> "", status |-> 0]
MimeType == "text/plain"          \* the content type the client declares
GzipType == "application/gzip"
EmptyFiles == [s \in {} |-> "A"]
NoDir == [exists |-> FALSE, files |-> EmptyFiles]
NoLegacy == [totalChunks |-> -1, receivedChunks |-> 0]

\* --------------------------------------------------------------- helpers

\* parseInt(chunkIndex)
ParseInt(s) ==
    CASE s = "0" -> 0
      [] s = "1" -> 1
      [] s = "01" -> 1
      [] s = "2" -> 2

\* i.toString()
ToString(i) ==
    CASE i = 0 -> "0"
      [] i = 1 -> "1"
      [] i = 2 -> "2"
      [] OTHER -> "3"

Put(f, k, v) == [x \in DOMAIN f \cup {k} |-> IF x = k THEN v ELSE f[x]]

\* fs.mkdirSync(dir, { recursive: true }) when the directory is absent
Mkdir(dirs, id) ==
    IF dirs[id].exists THEN dirs
    ELSE [dirs EXCEPT ![id] = [exists |-> TRUE, files |-> EmptyFiles]]

\* fs.rmSync(dir, { recursive: true, force: true })
RmDir(dirs, id) == [dirs EXCEPT ![id] = NoDir]

\* The session objects some handler can still reach: the runtime frees the rest.
Reachable(objs, reg, ws, cs) ==
    LET live == {reg[id] : id \in UploadIds}
                \cup {w.ref : w \in ws} \cup {c.ref : c \in cs}
    IN [r \in (DOMAIN objs) \cap live |-> objs[r]]

FreeTags(reqs, max) == {t \in 1..max : \A q \in reqs : q.tag # t}
MinOf(S) == CHOOSE x \in S : \A y \in S : x <= y

\* getDb(): db.json as read and parsed, or, when reading or parsing throws,
\* the empty store of the catch block
GetDb(store, readable) ==
    IF readable THEN store ELSE [files |-> <<>>, groups |-> <<>>]

\* The list is replaced by the new record alone.
Push_Replace(list, rec) == <<rec>>

\* db.files.push(rec) / db.groups.push(group), then saveDb(db)
Push(list, rec) == Append(list, rec)

\* ------------------------------------------------------------------ Init
Init ==
    /\ chunkedUploads = [id \in UploadIds |-> NoSession]
    /\ sessions = [r \in {} |-> 0]
    /\ nextRef = 1
    /\ temp = {}
    /\ chunkDirs = [id \in UploadIds |-> NoDir]
    /\ writes = {}
    /\ completions = {}
    /\ cleanups = [id \in UploadIds |-> 0]
    /\ uploads = [f \in {} |-> 0]
    /\ db = [files |-> <<>>, groups |-> <<>>]
    /\ now = 0
    /\ evicted = [id \in UploadIds |-> "never"]
    /\ singles = {}
    /\ resp = NoResp
    /\ legacy = [chunkedUploads |-> [id \in UploadIds |-> NoLegacy],
                 chunkDirs |-> [id \in UploadIds |-> NoDir],
                 sent |-> [id \in UploadIds |-> {}],
                 resp |-> NoResp]

\* ------------------------------------------------- POST /api/upload/init
InitHandler(id, total, size) ==
    /\ nextRef <= MaxSessions
    /\ chunkDirs' = Mkdir(chunkDirs, id)
    /\ chunkedUploads' = [chunkedUploads EXCEPT ![id] = nextRef]
    /\ sessions' = Reachable(
           Put(sessions, nextRef,
               [id |-> id, totalChunks |-> total, receivedChunks |-> 0,
                receivedChunksMap |-> {}, fileSize |-> size, createdAt |-> now]),
           chunkedUploads', writes, completions)
    /\ nextRef' = nextRef + 1
    /\ evicted' = [evicted EXCEPT ![id] = "no"]
    /\ resp' = [op |-> "init", status |-> 200]
    /\ UNCHANGED <<temp, writes, completions, cleanups, singles, uploads, db, now>>

\* The call as this revision alone handles it.
InitUpload(id, total, size) == InitHandler(id, total, size) /\ UNCHANGED legacy

\* ------------------------------------------------ POST /api/upload/chunk

\* has(chunkIndex): the string sent is never equal to a stored number
AlreadyReceived_AsString(s, idx) == FALSE

\* uploadInfo.receivedChunksMap.has(chunkIndexNum)
AlreadyReceived(s, idx) == ParseInt(idx) \in s.receivedChunksMap

\* The file stays in chunks/temp.
Unlink_Kept(files, f) == files

\* fs.unlinkSync(req.file.path)
Unlink(files, f) == files \ {f}

\* multer's diskStorage: when the handler's callback runs, the chunk a request
\* carries is in chunks/temp under a name of its own.
Stored(files, f, body) == IF body = NoFile THEN files ELSE files \cup {f}

\* if (req.file && req.file.path) fs.unlinkSync(req.file.path)
UnlinkIfAny(files, f, body) == IF body = NoFile THEN files ELSE Unlink(files, f)

\* stats.size === 0
EmptyChunk_Never(body) == FALSE

\* fs.statSync(req.file.path).size === 0
EmptyChunk(body) == body = EmptyPayload

\* The synchronous part of the handler, up to readStream.pipe(writeStream).
ChunkHandler(id, idx, body) ==
    LET f == MinOf(FreeTags(writes, MaxInFlight + 1))
        stored == Stored(temp, f, body)
    IN
    /\ UNCHANGED <<chunkedUploads, sessions, nextRef, completions, cleanups,
                   singles, uploads, db, now, evicted>>
    /\ IF chunkedUploads[id] = NoSession
       THEN /\ temp' = UnlinkIfAny(stored, f, body)
            /\ resp' = [op |-> "chunk", status |-> 400, error |-> "Invalid upload ID"]
            /\ UNCHANGED <<chunkDirs, writes>>
       ELSE LET s == sessions[chunkedUploads[id]] IN
            IF AlreadyReceived(s, idx)
            THEN /\ temp' = UnlinkIfAny(stored, f, body)
                 /\ resp' = [op |-> "chunk", status |-> 200, receivedChunks |-> s.receivedChunks,
                             totalChunks |-> s.totalChunks, duplicate |-> TRUE]
                 /\ UNCHANGED <<chunkDirs, writes>>
            ELSE IF body = NoFile
            THEN /\ temp' = stored
                 /\ resp' = [op |-> "chunk", status |-> 400, error |-> "No chunk file received or file is invalid"]
                 /\ UNCHANGED <<chunkDirs, writes>>
            ELSE IF EmptyChunk(body)
            THEN /\ temp' = Unlink(stored, f)
                 /\ resp' = [op |-> "chunk", status |-> 400, error |-> "Empty chunk received"]
                 /\ UNCHANGED <<chunkDirs, writes>>
            ELSE /\ FreeTags(writes, MaxInFlight) # {}
                 /\ temp' = stored
                 /\ chunkDirs' = Mkdir(chunkDirs, id)
                 /\ writes' = writes \cup
                        {[tag |-> f, id |-> id, ref |-> chunkedUploads[id],
                          chunkIndex |-> idx, body |-> body, phase |-> "piping"]}
                 /\ resp' = NoResp

\* The call as this revision alone handles it.
ChunkArrive(id, idx, body) == ChunkHandler(id, idx, body) /\ UNCHANGED legacy

\* The write stream opens chunks/<uploadId>/<chunkIndex> and receives the data;
\* with the directory gone the open fails and writeStream emits 'error'.
ChunkWrite(w) ==
    /\ w.phase = "piping"
    /\ UNCHANGED <<legacy, chunkedUploads, nextRef, completions, cleanups, singles,
                   uploads, db, now, evicted>>
    /\ IF chunkDirs[w.id].exists
       THEN /\ chunkDirs' = [chunkDirs EXCEPT
                   ![w.id].files = Put(@, w.chunkIndex, w.body)]
            /\ writes' = (writes \ {w}) \cup {[w EXCEPT !.phase = "flushed"]}
            /\ resp' = NoResp
            /\ UNCHANGED <<sessions, temp>>
       ELSE /\ writes' = writes \ {w}
            /\ temp' = Unlink(temp, w.tag)
            /\ sessions' = Reachable(sessions, chunkedUploads, writes', completions)
            /\ resp' = [op |-> "chunk", status |-> 500, error |-> "Failed to save chunk"]
            /\ UNCHANGED chunkDirs

\* The count is written back from a value read before another finish: the
\* increment is lost when the set already holds an index.
Record_Stale(s, idx) ==
    [s EXCEPT !.receivedChunks = IF s.receivedChunksMap = {} THEN 1 ELSE @,
              !.receivedChunksMap = @ \cup {ParseInt(idx)}]

\* uploadInfo.receivedChunks++; uploadInfo.receivedChunksMap.add(chunkIndexNum)
Record(s, idx) ==
    [s EXCEPT !.receivedChunks = @ + 1,
              !.receivedChunksMap = @ \cup {ParseInt(idx)}]

\* writeStream.on('finish')
ChunkFinish(w) ==
    /\ w.phase = "flushed"
    /\ writes' = writes \ {w}
    /\ temp' = Unlink(temp, w.tag)
    /\ LET s == Record(sessions[w.ref], w.chunkIndex) IN
       /\ sessions' = Reachable([sessions EXCEPT ![w.ref] = s],
                                chunkedUploads, writes', completions)
       /\ resp' = [op |-> "chunk", status |-> 200, receivedChunks |-> s.receivedChunks,
                   totalChunks |-> s.totalChunks, duplicate |-> FALSE]
    /\ UNCHANGED <<legacy, chunkedUploads, nextRef, chunkDirs, completions, cleanups,
                   singles, uploads, db, now, evicted>>

\* ------------------------------------------------------------ the clock
Tick ==
    /\ now < MaxTime
    /\ \A id \in UploadIds : cleanups[id] = 0   \* a 1 s timer fires within a unit
    /\ now' = now + 1
    /\ resp' = NoResp
    /\ UNCHANGED <<legacy, chunkedUploads, sessions, nextRef, temp, chunkDirs, writes,
                   completions, cleanups, singles, uploads, db, evicted>>

\* ------------------------------------------------- setInterval cleanup job

\* uploadInfo.createdAt - now: the operands the wrong way round
Expired_Swapped(s, t) == s.createdAt - t > Retention

\* >= in place of >: a session of exactly 24 hours is taken as expired
Expired_AtLeast(s, t) == t - s.createdAt >= Retention

\* now - uploadInfo.createdAt > 24 * 60 * 60 * 1000
Expired(s, t) == t - s.createdAt > Retention

\* The first throw ends the whole run: nothing is removed.
Swept_AbortsOnThrow(old, failing) == IF failing = {} THEN old ELSE {}

\* try { rmSync; delete } catch { log } inside the loop: a throw skips the
\* delete of that session only
Swept(old, failing) == old \ failing

\* failing: the sessions whose fs.rmSync throws in this run
Sweep(failing) ==
    LET old == {id \in UploadIds : /\ chunkedUploads[id] # NoSession
                                   /\ Expired(sessions[chunkedUploads[id]], now)}
        gone == Swept(old, failing)
    IN
    /\ failing \subseteq old
    /\ chunkDirs' = [id \in UploadIds |->
                        IF id \in gone THEN NoDir ELSE chunkDirs[id]]
    /\ chunkedUploads' = [id \in UploadIds |->
                        IF id \in gone THEN NoSession ELSE chunkedUploads[id]]
    /\ sessions' = Reachable(sessions, chunkedUploads', writes, completions)
    /\ evicted' = [id \in UploadIds |->
                        IF id \in gone THEN "swept" ELSE evicted[id]]
    /\ resp' = NoResp
    /\ UNCHANGED <<legacy, nextRef, temp, writes, completions, cleanups, singles, uploads, db, now>>


\* --------------------------------------------- POST /api/upload/complete

\* receivedChunks < totalChunks: a surplus of chunks passes as complete
AllReceived_AtLeast(s) == s.receivedChunks >= s.totalChunks

\* uploadInfo.receivedChunks !== uploadInfo.totalChunks, negated
AllReceived(s) == s.receivedChunks = s.totalChunks

\* The check is left out: every chunk is taken to be there.
ChunkExists_Always(dirs, id, i) == TRUE

\* fs.existsSync(path.join(uploadInfo.uploadChunksDir, i.toString()))
ChunkExists(dirs, id, i) ==
    dirs[id].exists /\ ToString(i) \in DOMAIN dirs[id].files

\* fs.createReadStream(chunkPath) opens the file; if not, 'error' rejects
CanRead(dirs, id, i) ==
    dirs[id].exists /\ ToString(i) \in DOMAIN dirs[id].files

\* The catch block deletes chunkedUploads[uploadId] as the success path does.
Caught_Evicts(reg, id) == [reg EXCEPT ![id] = NoSession]

\* catch (error) { res.status(500)... }: the registry is left as it is
Caught(reg, id) == reg

\* Sizes in KiB: every chunk body is 5 KiB; gzip turns "A" into 1 KiB and
\* leaves "B" at 5 KiB, and adds 1 KiB of header and trailer.
RECURSIVE RawSize(_)
RawSize(data) == IF data = <<>> THEN 0 ELSE 5 + RawSize(Tail(data))
RECURSIVE GzipSize(_)
GzipSize(data) ==
    IF data = <<>> THEN 1
    ELSE (IF Head(data) = "A" THEN 1 ELSE 5) + GzipSize(Tail(data))

\* fs.statSync(filePath).size
StatSize(a) == IF a.gz THEN GzipSize(a.data) ELSE RawSize(a.data)

\* `chunked-${Date.now()}-${code}${fileExt}${compressedExt}`: two completions
\* that read the same clock value and draw the same code share the name.
ChunkedName(t, code, compress) ==
    [kind |-> "chunked", t |-> t, code |-> code, gz |-> compress]

\* fileSize <= 10 * 1024: a file of exactly 10 KiB is not compressed either
EffectiveCompress_Inclusive(compress, size) == compress /\ ~(size <= CompressMin)

\* if (compress && uploadInfo.fileSize < 10 * 1024) compress = false
EffectiveCompress(compress, size) == compress /\ ~(size < CompressMin)

\* The files that call and timer steps may still add to db.files.
Committing == Len(db.files) + Cardinality(completions) + Cardinality(singles)

\* The handler up to its first await: the lookup, the completeness check, the
\* code, createWriteStream, and combineChunks up to the first chunk's stream.
CompleteHandler(id, compress, code) ==
    /\ UNCHANGED <<nextRef, temp, chunkDirs, writes, cleanups, singles, db, now,
                   evicted>>
    /\ IF chunkedUploads[id] = NoSession
       THEN /\ resp' = [op |-> "complete", status |-> 400, error |-> "Invalid upload ID"]
            /\ UNCHANGED <<chunkedUploads, sessions, completions, uploads>>
       ELSE LET s == sessions[chunkedUploads[id]]
                name == ChunkedName(now, code, compress)
                gz == EffectiveCompress(compress, s.fileSize)
                c == [tag |-> MinOf(FreeTags(completions, MaxCompletions)),
                      id |-> id, ref |-> chunkedUploads[id], code |-> code,
                      name |-> name, gz |-> gz, i |-> 0, out |-> <<>>,
                      phase |-> IF s.totalChunks = 0 THEN "flush" ELSE "read"]
            IN
            IF ~AllReceived(s)
            THEN /\ resp' = [op |-> "complete", status |-> 400, error |-> "Not all chunks received",
                             received |-> s.receivedChunks,
                             expected |-> s.totalChunks]
                 /\ UNCHANGED <<chunkedUploads, sessions, completions, uploads>>
            ELSE /\ FreeTags(completions, MaxCompletions) # {}
                 /\ Committing < MaxFiles
                 /\ uploads' = Put(uploads, name,
                                   [gz |-> gz, data |-> <<>>, ended |-> FALSE])
                 /\ IF s.totalChunks = 0 \/ ChunkExists(chunkDirs, id, 0)
                    THEN /\ completions' = completions \cup {c}
                         /\ resp' = NoResp
                         /\ UNCHANGED <<chunkedUploads, sessions>>
                    ELSE /\ resp' = [op |-> "complete", status |-> 500,
                                     error |-> "Failed to complete upload"]
                         /\ chunkedUploads' = Caught(chunkedUploads, id)
                         /\ sessions' = Reachable(sessions, chunkedUploads',
                                                  writes, completions)
                         /\ UNCHANGED completions

\* The call as this revision alone handles it.
CompleteArrive(id, compress, code) == CompleteHandler(id, compress, code) /\ UNCHANGED legacy

\* i += 2: every other chunk is left out
NextIndex_Skip(i) == i + 2

\* The index combineChunks turns to after chunk i
NextIndex(i) == i + 1

\* One round of combineChunks: chunk i is streamed into the output, and the
\* loop goes on to the existence check of the next chunk or ends the output.
CombineStep(c) ==
    /\ c.phase = "read"
    /\ UNCHANGED <<legacy, nextRef, temp, chunkDirs, writes, cleanups, singles, db, now,
                   evicted>>
    /\ IF ~CanRead(chunkDirs, c.id, c.i)
       THEN /\ completions' = completions \ {c}
            /\ resp' = [op |-> "complete", status |-> 500, error |-> "Failed to complete upload"]
            /\ chunkedUploads' = Caught(chunkedUploads, c.id)
            /\ UNCHANGED uploads
       ELSE LET out == Append(c.out, chunkDirs[c.id].files[ToString(c.i)])
                j == NextIndex(c.i)
                total == sessions[c.ref].totalChunks
            IN
            /\ uploads' = Put(uploads, c.name,
                              [gz |-> c.gz, data |-> out, ended |-> FALSE])
            /\ IF j >= total
               THEN /\ completions' = (completions \ {c}) \cup
                        {[c EXCEPT !.out = out, !.i = j, !.phase = "flush"]}
                    /\ resp' = NoResp
                    /\ UNCHANGED chunkedUploads
               ELSE IF ChunkExists(chunkDirs, c.id, j)
               THEN /\ completions' = (completions \ {c}) \cup
                        {[c EXCEPT !.out = out, !.i = j]}
                    /\ resp' = NoResp
                    /\ UNCHANGED chunkedUploads
               ELSE /\ completions' = completions \ {c}
                    /\ resp' = [op |-> "complete", status |-> 500,
                                error |-> "Failed to complete upload"]
                    /\ chunkedUploads' = Caught(chunkedUploads, c.id)
    /\ sessions' = Reachable(sessions, chunkedUploads', writes, completions')

\* The session is left in the registry.
Forget_Kept(reg, id) == reg

\* delete chunkedUploads[uploadId]
Forget(reg, id) == [reg EXCEPT ![id] = NoSession]

\* The write stream's 'finish': the size is read, the record is pushed and
\* saved, the chunk directory's removal is scheduled, the session is deleted.
CompleteFinishRead(c, readable) ==
    /\ c.phase = "flush"
    /\ LET a == [gz |-> c.gz, data |-> c.out, ended |-> TRUE]
           s == sessions[c.ref]
           rec == [id |-> c.code, storedFilename |-> c.name,
                   size |-> StatSize(a),
                   originalSize |-> IF c.gz THEN s.fileSize ELSE Null,
                   mimetype |-> IF c.gz THEN GzipType ELSE MimeType,
                   originalMimetype |-> IF c.gz THEN MimeType ELSE "",
                   compressionRatio |-> c.gz,     \* TRUE: not null
                   declared |-> MimeType,         \* uploadInfo.mimeType
                   compressed |-> c.gz, chunked |-> TRUE, session |-> c.ref]
       IN
       /\ uploads' = Put(uploads, c.name, a)
       /\ db' = [GetDb(db, readable) EXCEPT !.files = Push(@, rec)]
       /\ resp' = [op |-> "complete", status |-> 200, code |-> c.code, size |-> rec.size,
                   compressed |-> c.gz]
    /\ cleanups' = [cleanups EXCEPT ![c.id] = @ + 1]
    /\ chunkedUploads' = Forget(chunkedUploads, c.id)
    /\ completions' = completions \ {c}
    /\ sessions' = Reachable(sessions, chunkedUploads', writes, completions')
    /\ evicted' = [evicted EXCEPT ![c.id] = "completed"]
    /\ UNCHANGED <<legacy, nextRef, temp, chunkDirs, writes, singles, now>>

\* The same with db.json read without fault.
CompleteFinish(c) == CompleteFinishRead(c, TRUE)

\* setTimeout(() => fs.rmSync(uploadInfo.uploadChunksDir, ...), 1000)
CleanupTimer(id) ==
    /\ cleanups[id] > 0
    /\ cleanups' = [cleanups EXCEPT ![id] = @ - 1]
    /\ chunkDirs' = RmDir(chunkDirs, id)
    /\ resp' = NoResp
    /\ UNCHANGED <<legacy, chunkedUploads, sessions, nextRef, temp, writes, completions,
                   singles, uploads, db, now, evicted>>

\* ---------------------------------------------------- POST /api/upload
FileBodies == {<<"A">>, <<"A", "A">>, <<"B", "B">>}   \* uploaded files
Rands == {"r1", "r2"}                    \* Math.round(Math.random() * 1E9)

\* file.fieldname + '-' + Date.now() + '-' + random + ext
SingleName(t, rnd) == [kind |-> "file", t |-> t, code |-> rnd, gz |-> FALSE]

\* db.files.push({...}) of the single-shot path
SingleRecord(u) ==
    [id |-> u.code, storedFilename |-> u.name, size |-> u.size,
     originalSize |-> IF u.gz THEN RawSize(u.body) ELSE Null,
     mimetype |-> u.mimetype,
     originalMimetype |-> IF u.gz THEN u.declared ELSE "",
     compressionRatio |-> u.ratio,      \* TRUE: not null
     declared |-> u.declared,           \* req.file.mimetype
     compressed |-> u.gz, chunked |-> FALSE, session |-> 0]

\* multer has stored the file; without compression the handler runs on to the
\* code and the 100 ms wait, with compression it waits for the gzip pipeline.
UploadArriveAs(body, optimized, rnd, code, mime) ==
    /\ Committing < MaxFiles
    /\ FreeTags(singles, MaxFiles) # {}
    /\ LET name == SingleName(now, rnd)
           gz == EffectiveCompress(optimized, RawSize(body))
       IN
       /\ uploads' = Put(uploads, name,
                         [gz |-> FALSE, data |-> body, ended |-> TRUE])
       /\ singles' = singles \cup
              {[tag |-> MinOf(FreeTags(singles, MaxFiles)), name |-> name,
                body |-> body, gz |-> gz, size |-> RawSize(body),
                mimetype |-> mime, declared |-> mime, ratio |-> FALSE,
                failedAt |-> "",    \* the step at which the compression failed
                code |-> IF gz THEN "" ELSE code,
                phase |-> IF gz THEN "gzip" ELSE "wait"]}
    /\ resp' = NoResp
    /\ UNCHANGED <<legacy, chunkedUploads, sessions, nextRef, temp, chunkDirs, writes,
                   completions, cleanups, db, now, evicted>>

\* The same for a file of the content type most clients declare.
UploadArrive(body, optimized, rnd, code) ==
    UploadArriveAs(body, optimized, rnd, code, MimeType)

\* finalSize >= req.file.size: the compressed copy is dropped
KeepOriginal(finalSize, size) == finalSize >= size

\* The compressed copy has been written: it replaces the original when it is
\* smaller; then the code is drawn and the 100 ms wait starts.
UploadCompressed(u, code) ==
    /\ u.phase = "gzip"
    /\ LET finalSize == GzipSize(u.body) IN
       IF KeepOriginal(finalSize, u.size)
       THEN /\ singles' = (singles \ {u}) \cup
                   {[u EXCEPT !.gz = FALSE, !.size = finalSize,
                              !.code = code, !.phase = "wait"]}
            /\ UNCHANGED uploads
       ELSE /\ singles' = (singles \ {u}) \cup
                   {[u EXCEPT !.size = finalSize, !.code = code,
                              !.mimetype = GzipType, !.ratio = TRUE,
                              !.phase = "wait"]}
            /\ uploads' = Put(uploads, u.name,
                              [gz |-> TRUE, data |-> u.body, ended |-> TRUE])
    /\ resp' = NoResp
    /\ UNCHANGED <<legacy, chunkedUploads, sessions, nextRef, temp, chunkDirs, writes,
                   completions, cleanups, db, now, evicted>>

\* The steps of the compression at which a call can throw or a stream can emit
\* 'error': the read-gzip-write pipeline, the check of the output, the deletion
\* of the original, the rename of the compressed file.
CompressSteps == {"pipeline", "empty", "unlink", "rename"}

\* req.file.path + '.gz'
GzName(name) == [name EXCEPT !.gz = TRUE]

\* fs.unlinkSync(path) that succeeds
Remove(dir, name) == [n \in DOMAIN dir \ {name} |-> dir[n]]

\* The compression fails at the given step and catch (compressError) sets
\* compress = false; finalSize, finalFilePath and finalMimetype keep what was
\* assigned to them before the throw. Then the code is drawn and the wait starts.
UploadCompressFails(u, code, step) ==
    /\ u.phase = "gzip"
    /\ step \in {"unlink", "rename"} => ~KeepOriginal(GzipSize(u.body), u.size)
    /\ LET finalSize == GzipSize(u.body)
           whole == [gz |-> TRUE, data |-> u.body, ended |-> TRUE]
           part == [gz |-> TRUE, data |-> <<>>, ended |-> FALSE]
       IN
       CASE step \in {"pipeline", "empty"} ->
              /\ singles' = (singles \ {u}) \cup
                     {[u EXCEPT !.gz = FALSE, !.code = code, !.failedAt = step,
                                !.phase = "wait"]}
              /\ uploads' = Put(uploads, GzName(u.name), part)
         [] step = "unlink" ->
              /\ singles' = (singles \ {u}) \cup
                     {[u EXCEPT !.gz = FALSE, !.size = finalSize, !.code = code,
                                !.ratio = TRUE, !.failedAt = step,
                                !.phase = "wait"]}
              /\ uploads' = Put(uploads, GzName(u.name), whole)
         [] step = "rename" ->
              /\ singles' = (singles \ {u}) \cup
                     {[u EXCEPT !.gz = FALSE, !.size = finalSize, !.code = code,
                                !.name = GzName(u.name), !.mimetype = GzipType,
                                !.ratio = TRUE, !.failedAt = step,
                                !.phase = "wait"]}
              /\ uploads' = Put(Remove(uploads, u.name), GzName(u.name), whole)
    /\ resp' = NoResp
    /\ UNCHANGED <<legacy, chunkedUploads, sessions, nextRef, temp, chunkDirs, writes,
                   completions, cleanups, db, now, evicted>>

\* After the wait: getDb(), db.files.push, saveDb, res.status(201)
UploadCommitRead(u, readable) ==
    /\ u.phase = "wait"
    /\ singles' = singles \ {u}
    /\ db' = [GetDb(db, readable) EXCEPT !.files = Push(@, SingleRecord(u))]
    /\ resp' = [op |-> "upload", status |-> 201, code |-> u.code, size |-> u.size,
                compressed |-> u.gz]
    /\ UNCHANGED <<legacy, chunkedUploads, sessions, nextRef, temp, chunkDirs, writes,
                   completions, cleanups, uploads, now, evicted>>

\* The same with db.json read without fault.
UploadCommit(u) == UploadCommitRead(u, TRUE)

\* ------------------------------------------------------ POST /api/group

\* array.find(x => x.id === code): the first match, 0 when there is none
RECURSIVE FindFrom(_, _, _)
FindFrom(recs, code, i) ==
    IF i > Len(recs) THEN 0
    ELSE IF recs[i].id = code THEN i
    ELSE FindFrom(recs, code, i + 1)
Find(recs, code) == FindFrom(recs, code, 1)

\* The verification loop is left out: no id is reported missing.
FirstMissing_None(files, fileIds, i) == 0

\* The first file id of the request that db.files does not hold, 0 if none
RECURSIVE FirstMissing(_, _, _)
FirstMissing(files, fileIds, i) ==
    IF i > Len(fileIds) THEN 0
    ELSE IF Find(files, fileIds[i]) = 0 THEN i
    ELSE FirstMissing(files, fileIds, i + 1)

GroupRequests == {<<>>} \cup {<<c>> : c \in Codes}
                 \cup {<<c, d>> : c \in Codes, d \in Codes}

CreateGroupRead(fileIds, groupCode, readable) ==
    LET store == GetDb(db, readable) IN
    /\ UNCHANGED <<legacy, chunkedUploads, sessions, nextRef, temp, chunkDirs, writes,
                   completions, cleanups, singles, uploads, now, evicted>>
    /\ IF fileIds = <<>>
       THEN /\ resp' = [op |-> "group", status |-> 400, error |-> "No file IDs provided"]
            /\ UNCHANGED db
       ELSE IF FirstMissing(store.files, fileIds, 1) # 0
       THEN /\ resp' = [op |-> "group", status |-> 404,
                        missing |-> fileIds[FirstMissing(store.files, fileIds, 1)]]
            /\ UNCHANGED db
       ELSE /\ Len(db.groups) < MaxGroups
            /\ db' = [store EXCEPT !.groups = Push(@,
                         [id |-> groupCode, fileIds |-> fileIds,
                          fileCount |-> Len(fileIds)])]
            /\ resp' = [op |-> "group", status |-> 201, groupCode |-> groupCode,
                        fileCount |-> Len(fileIds)]

\* The same with db.json read without fault.
CreateGroup(fileIds, groupCode) == CreateGroupRead(fileIds, groupCode, TRUE)

\* ------------------------------------------------- GET /api/group/:code

\* Only the first member is looked up.
RECURSIVE Members_FirstOnly(_, _)
Members_FirstOnly(files, fileIds) ==
    IF fileIds = <<>> \/ Find(files, Head(fileIds)) = 0 THEN <<>>
    ELSE <<[id |-> files[Find(files, Head(fileIds))].id,
            size |-> files[Find(files, Head(fileIds))].size,
            compressed |-> files[Find(files, Head(fileIds))].compressed]>>

\* for (const fileId of group.fileIds) { find; if (fileInfo) files.push(...) }
RECURSIVE Members(_, _)
Members(files, fileIds) ==
    IF fileIds = <<>> THEN <<>>
    ELSE LET f == Find(files, Head(fileIds))
             rest == Members(files, Tail(fileIds))
         IN IF f = 0 THEN rest
            ELSE <<[id |-> files[f].id, size |-> files[f].size,
                    compressed |-> files[f].compressed]>> \o rest

\* What the handler answers for a code
ResolveGroup(store, code) ==
    LET g == Find(store.groups, code) IN
    IF g = 0
    THEN [op |-> "groupinfo", status |-> 404, error |-> "Group not found"]
    ELSE LET files == Members(store.files, store.groups[g].fileIds) IN
         [op |-> "groupinfo", status |-> 200, groupCode |-> store.groups[g].id,
          fileCount |-> Len(files), files |-> files]

GetGroup(code) ==
    /\ resp' = ResolveGroup(GetDb(db, TRUE), code)
    /\ UNCHANGED <<legacy, chunkedUploads, sessions, nextRef, temp, chunkDirs, writes,
                   completions, cleanups, singles, uploads, db, now, evicted>>

\* -------------------------------------------------- GET /api/file/:code

\* The check is left out: every artifact is taken to be there.
ArtifactExists_Always(dir, name) == TRUE

\* fs.existsSync(path.join(uploadsDir, fileInfo.storedFilename))
ArtifactExists(dir, name) == name \in DOMAIN dir

\* fs.createReadStream(filePath): the bytes of the file, none when it is absent
Artifact(dir, name) ==
    IF name \in DOMAIN dir THEN dir[name]
    ELSE [gz |-> FALSE, data |-> <<>>, ended |-> FALSE]

\* What the handler answers for a code: the file is looked up first, the
\* groups only when no file has the code. A compressed record is served through
\* gunzip; when the stored bytes are no gzip stream the raw bytes are served.
ResolveAndStream(store, dir, code) ==
    LET f == Find(store.files, code)
        g == Find(store.groups, code)
    IN
    IF f = 0
    THEN IF g # 0
         THEN [op |-> "file", status |-> 400, isGroup |-> TRUE, groupCode |-> code,
               fileCount |-> store.groups[g].fileCount]
         ELSE [op |-> "file", status |-> 404, error |-> "File not found"]
    ELSE LET rec == store.files[f] IN
         IF ~ArtifactExists(dir, rec.storedFilename)
         THEN [op |-> "file", status |-> 404, error |-> "File not found on server"]
         ELSE LET a == Artifact(dir, rec.storedFilename) IN
              [op |-> "file", status |-> 200, served |-> f,
               body |-> IF rec.compressed /\ a.gz /\ a.ended
                        THEN [gz |-> FALSE, data |-> a.data]
                        ELSE [gz |-> a.gz, data |-> a.data]]

GetFile(code) ==
    /\ resp' = ResolveAndStream(db, uploads, code)
    /\ UNCHANGED <<legacy, chunkedUploads, sessions, nextRef, temp, chunkDirs, writes,
                   completions, cleanups, singles, uploads, db, now, evicted>>

\* gunzip emits 'error' after n pieces of the file were decompressed and
\* written to the response. The handler falls back to the raw file only while
\* no header was sent, that is before the first piece; after it nothing ends
\* the response.
GunzipFailed(rec, a, f, n) ==
    IF n = 0
    THEN [op |-> "file", status |-> 200, served |-> f,
          contentType |-> rec.mimetype,
          body |-> [gz |-> a.gz, data |-> a.data], ended |-> TRUE]
    ELSE [op |-> "file", status |-> 200, served |-> f,
          contentType |-> rec.originalMimetype,
          body |-> [gz |-> FALSE, data |-> SubSeq(a.data, 1, n)],
          ended |-> FALSE]

GetFileGunzipError(code, n) ==
    LET f == Find(db.files, code) IN
    /\ f # 0
    /\ db.files[f].compressed
    /\ ArtifactExists(uploads, db.files[f].storedFilename)
    /\ n \in 0..Len(Artifact(uploads, db.files[f].storedFilename).data)
    /\ resp' = GunzipFailed(db.files[f],
                            Artifact(uploads, db.files[f].storedFilename), f, n)
    /\ UNCHANGED <<legacy, chunkedUploads, sessions, nextRef, temp, chunkDirs, writes,
                   completions, cleanups, singles, uploads, db, now, evicted>>

\* ------------------------------------- stream errors during an assembly

\* The output write stream emits 'error' (the disk is full, the file cannot be
\* opened). No 'error' listener is registered on it, so the event is thrown as
\* an uncaught exception and the process ends: no request is answered any more.
WriteStreamError(c) ==
    /\ c.phase \in {"read", "flush"}
    /\ completions' = (completions \ {c}) \cup {[c EXCEPT !.phase = "crashed"]}
    /\ resp' = NoResp
    /\ UNCHANGED <<legacy, chunkedUploads, sessions, nextRef, temp, chunkDirs, writes,
                   cleanups, singles, uploads, db, now, evicted>>

\* The gzip stream emits 'error'. Its listener only logs: nothing ends the
\* write stream, so 'finish', which the handler awaits, never comes.
GzipError(c) ==
    /\ c.gz
    /\ c.phase \in {"read", "flush"}
    /\ completions' = (completions \ {c}) \cup {[c EXCEPT !.phase = "hung"]}
    /\ resp' = NoResp
    /\ UNCHANGED <<legacy, chunkedUploads, sessions, nextRef, temp, chunkDirs, writes,
                   cleanups, singles, uploads, db, now, evicted>>

\* The process has not been ended by an uncaught exception.
Alive == \A c \in completions : c.phase # "crashed"

\* ----------------------------------------------- GET /api/download/:code

\* The information the handler answers for a code, without any bytes.
ResolveInfo(store, dir, code) ==
    LET f == Find(store.files, code) IN
    IF f = 0
    THEN [op |-> "download", status |-> 404, error |-> "File not found"]
    ELSE LET rec == store.files[f] IN
         IF ~ArtifactExists(dir, rec.storedFilename)
         THEN [op |-> "download", status |-> 404,
               error |-> "File not found on server"]
         ELSE [op |-> "download", status |-> 200, size |-> rec.size,
               originalSize |-> rec.originalSize,
               compressed |-> rec.compressed]

GetDownload(code) ==
    /\ resp' = ResolveInfo(db, uploads, code)
    /\ UNCHANGED <<legacy, chunkedUploads, sessions, nextRef, temp, chunkDirs, writes,
                   completions, cleanups, singles, uploads, db, now, evicted>>

\* The artifact directory is not under the program's control alone: a stored
\* file disappears from uploads/ while its record stays in db.json.
LoseArtifact(name) ==
    /\ name \in DOMAIN uploads
    /\ uploads' = [n \in DOMAIN uploads \ {name} |-> uploads[n]]
    /\ resp' = NoResp
    /\ UNCHANGED <<legacy, chunkedUploads, sessions, nextRef, temp, chunkDirs, writes,
                   completions, cleanups, singles, db, now, evicted>>

\* ------------------------------------- the older revision, src/server.js
\* Its chunk and completion handlers run without an await before the response
\* is decided, so each call is one step. l is the revision's state: registry,
\* chunk directories, the indices sent to the current session, last response.

\* POST /api/upload/init
LegacyInit(l, id, total) ==
    [l EXCEPT !.chunkDirs = Mkdir(@, id),
              !.chunkedUploads[id] = [totalChunks |-> total, receivedChunks |-> 0],
              !.sent[id] = {},
              !.resp = [op |-> "init", status |-> 200]]

\* POST /api/upload/chunk: fs.renameSync into the chunk directory (it throws
\* when the directory is gone), then receivedChunks++
LegacyChunk(l, id, idx, body) ==
    IF l.chunkedUploads[id] = NoLegacy
    THEN [l EXCEPT !.resp = [op |-> "chunk", status |-> 400,
                             error |-> "Invalid upload ID"]]
    ELSE IF ~l.chunkDirs[id].exists
    THEN [l EXCEPT !.sent[id] = @ \cup {idx},
                   !.resp = [op |-> "chunk", status |-> 500,
                             error |-> "Failed to process chunk"]]
    ELSE [l EXCEPT !.chunkDirs[id].files = Put(@, idx, body),
                   !.chunkedUploads[id].receivedChunks = @ + 1,
                   !.sent[id] = @ \cup {idx},
                   !.resp = [op |-> "chunk", status |-> 200,
                             receivedChunks |-> l.chunkedUploads[id].receivedChunks + 1,
                             totalChunks |-> l.chunkedUploads[id].totalChunks]]

\* POST /api/upload/complete: readFileSync of every chunk in index order (it
\* throws on an absent file), the record, fs.rmSync of the chunk directory and
\* delete of the session, all before the response
LegacyComplete(l, id) ==
    LET s == l.chunkedUploads[id]
        d == l.chunkDirs[id]
    IN
    IF s = NoLegacy
    THEN [l EXCEPT !.resp = [op |-> "complete", status |-> 400,
                             error |-> "Invalid upload ID"]]
    ELSE IF s.receivedChunks # s.totalChunks
    THEN [l EXCEPT !.resp = [op |-> "complete", status |-> 400,
                             error |-> "Not all chunks received"]]
    ELSE IF \E i \in 0..(s.totalChunks - 1) :
                ~d.exists \/ ToString(i) \notin DOMAIN d.files
    THEN [l EXCEPT !.resp = [op |-> "complete", status |-> 500,
                             error |-> "Failed to complete upload"]]
    ELSE [l EXCEPT !.chunkDirs[id] = NoDir,
                   !.chunkedUploads[id] = NoLegacy,
                   !.resp = [op |-> "complete", status |-> 200,
                             data |-> [k \in 1..s.totalChunks |->
                                          d.files[ToString(k - 1)]]]]

\* The same call given to both revisions.
BothInit(id, total, size) ==
    InitHandler(id, total, size) /\ legacy' = LegacyInit(legacy, id, total)

\* A chunk whose index was not sent to the session before
BothChunk(id, idx, body) ==
    /\ idx \notin legacy.sent[id]
    /\ ChunkHandler(id, idx, body)
    /\ legacy' = LegacyChunk(legacy, id, idx, body)

BothComplete(id, code) ==
    CompleteHandler(id, FALSE, code) /\ legacy' = LegacyComplete(legacy, id)

\* -------------------------------------------------------- specifications

\* Steps that continue a request already under way, and the timers.
Continue ==
    \/ \E w \in writes : ChunkWrite(w)
    \/ \E w \in writes : ChunkFinish(w)
    \/ \E c \in completions : CombineStep(c)
    \/ \E c \in completions : CompleteFinish(c)
    \/ \E id \in UploadIds : CleanupTimer(id)

\* No request is suspended and no timer is pending.
Quiet ==
    /\ writes = {} /\ completions = {} /\ singles = {}
    /\ \A id \in UploadIds : cleanups[id] = 0

\* One upload id; every call and timer is handled to its end before the next
\* one starts. Chunk indices in and out of range, every kind of chunk body.
NextSerial ==
    \/ \E total \in 1..MaxTotalChunks : Quiet /\ InitUpload("u1", total, 5)
    \/ \E idx \in {"0", "1", "2"}, body \in ChunkBodies :
          Quiet /\ ChunkArrive("u1", idx, body)
    \/ Quiet /\ CompleteArrive("u1", FALSE, "c1")
    \/ Continue

SpecSerial == Init /\ [][NextSerial]_vars

\* One upload id; chunk uploads interleave in every way.
NextRace ==
    \/ \E total \in 1..MaxTotalChunks : InitUpload("u1", total, 5)
    \/ \E idx \in {"0", "1"} : ChunkArrive("u1", idx, "A")
    \/ \E w \in writes : ChunkWrite(w)
    \/ \E w \in writes : ChunkFinish(w)

SpecRace == Init /\ [][NextRace]_vars

\* One upload id and one-chunk sessions; chunk uploads are handled one at a
\* time, completion calls interleave in every way with each other and with the
\* other calls.
NextComplete ==
    \/ InitUpload("u1", 1, 5)
    \/ writes = {} /\ ChunkArrive("u1", "0", "A")
    \/ \E code \in Codes : CompleteArrive("u1", FALSE, code)
    \/ Continue

SpecComplete == Init /\ [][NextComplete]_vars

\* Two upload ids, the clock and the cleanup job; chunks and completions for
\* the first id only.
NextSweep ==
    \/ \E id \in UploadIds : InitUpload(id, 1, 5)
    \/ writes = {} /\ ChunkArrive("u1", "0", "A")
    \/ completions = {} /\ CompleteArrive("u1", FALSE, "c1")
    \/ Continue
    \/ Tick
    \/ \E failing \in SUBSET UploadIds : Sweep(failing)

SpecSweep == Init /\ [][NextSweep]_vars

\* The metadata store: single-shot uploads, completions of one-chunk sessions,
\* groups and downloads, each call handled to its end before the next starts.
NextStore ==
    \/ Quiet /\ InitUpload("u1", 1, 5)
    \/ Quiet /\ ChunkArrive("u1", "0", "A")
    \/ \E code \in Codes : Quiet /\ CompleteArrive("u1", FALSE, code)
    \/ Continue
    \/ \E body \in FileBodies, optimized \in BOOLEAN, rnd \in Rands,
          code \in Codes :
          Quiet /\ UploadArrive(body, optimized, rnd, code)
    \/ \E u \in singles, code \in Codes : UploadCompressed(u, code)
    \/ \E u \in singles : UploadCommit(u)
    \/ \E fileIds \in GroupRequests, code \in Codes :
          Quiet /\ CreateGroup(fileIds, code)
    \/ \E code \in Codes : Quiet /\ GetFile(code)

SpecStore == Init /\ [][NextStore]_vars

\* parseInt(totalChunks) for the values a client may send: nothing in the
\* handler restricts them.
TotalChunksSent == {-1, 0, 1}

\* One upload id, any totalChunks, calls handled one after another.
NextInit ==
    \/ \E total \in TotalChunksSent : Quiet /\ InitUpload("u1", total, 5)
    \/ \E body \in Payloads : Quiet /\ ChunkArrive("u1", "0", body)
    \/ Quiet /\ CompleteArrive("u1", FALSE, "c1")
    \/ Continue

SpecInit == Init /\ [][NextInit]_vars

\* Compression on both upload paths: sessions of one or two chunks with a
\* declared size below or at the threshold, single-shot files below and at it,
\* compressible and not; each call handled to its end before the next starts,
\* up to the first record committed.
NextCompress ==
    \/ \E total \in 1..2, size \in FileSizes :
          Quiet /\ InitUpload("u1", total, size)
    \/ \E idx \in {"0", "1"}, body \in Payloads :
          Quiet /\ ChunkArrive("u1", idx, body)
    \/ \E compress \in BOOLEAN :
          Quiet /\ db.files = <<>> /\ CompleteArrive("u1", compress, "c1")
    \/ Continue
    \/ \E body \in FileBodies, optimized \in BOOLEAN :
          Quiet /\ db.files = <<>> /\ UploadArrive(body, optimized, "r1", "c1")
    \/ \E u \in singles : UploadCompressed(u, "c1")
    \/ \E u \in singles : UploadCommit(u)

SpecCompress == Init /\ [][NextCompress]_vars

\* The store and the artifact directory: single-shot uploads without
\* compression, groups, both lookups, and artifacts that disappear; each call
\* handled to its end before the next starts.
NextGroup ==
    \/ \E rnd \in Rands, code \in Codes :
          Quiet /\ UploadArrive(<<"A">>, FALSE, rnd, code)
    \/ \E u \in singles : UploadCommit(u)
    \/ \E fileIds \in GroupRequests : Quiet /\ CreateGroup(fileIds, "c1")
    \/ \E code \in Codes : Quiet /\ GetFile(code)
    \/ \E code \in Codes : Quiet /\ GetDownload(code)
    \/ \E name \in DOMAIN uploads : Quiet /\ LoseArtifact(name)

SpecGroup == Init /\ [][NextGroup]_vars

\* One upload id, one-chunk sessions large enough to be compressed, and
\* completions whose streams may fail. The event loop runs every callback
\* that is ready, as long as the process lives.
NextLive ==
    \/ Alive /\ InitUpload("u1", 1, 10)
    \/ Alive /\ writes = {} /\ ChunkArrive("u1", "0", "A")
    \/ \E compress \in BOOLEAN : Alive /\ CompleteArrive("u1", compress, "c1")
    \/ \E w \in writes : Alive /\ ChunkWrite(w)
    \/ \E w \in writes : Alive /\ ChunkFinish(w)
    \/ \E c \in completions : Alive /\ CombineStep(c)
    \/ \E c \in completions : Alive /\ CompleteFinish(c)
    \/ \E id \in UploadIds : Alive /\ CleanupTimer(id)
    \/ \E c \in completions : Alive /\ WriteStreamError(c)
    \/ \E c \in completions : Alive /\ GzipError(c)

SpecLive ==
    /\ Init /\ [][NextLive]_vars
    /\ WF_vars(\E w \in writes : Alive /\ ChunkWrite(w))
    /\ WF_vars(\E w \in writes : Alive /\ ChunkFinish(w))
    /\ WF_vars(\E c \in completions : Alive /\ CombineStep(c))
    /\ WF_vars(\E c \in completions : Alive /\ CompleteFinish(c))
    /\ WF_vars(\E id \in UploadIds : Alive /\ CleanupTimer(id))

\* One session; chunk uploads with in-range indices, no index sent twice,
\* interleaved in every way.
NextDistinct ==
    \/ \E total \in 1..MaxTotalChunks :
          chunkedUploads["u1"] = NoSession /\ InitUpload("u1", total, 5)
    \/ \E idx \in {"0", "1", "2"}, body \in Payloads :
          /\ chunkedUploads["u1"] # NoSession
          /\ ParseInt(idx) < sessions[chunkedUploads["u1"]].totalChunks
          /\ \A w \in writes : w.chunkIndex # idx
          /\ ParseInt(idx) \notin sessions[chunkedUploads["u1"]].receivedChunksMap
          /\ ChunkArrive("u1", idx, body)
    \/ \E w \in writes : ChunkWrite(w)
    \/ \E w \in writes : ChunkFinish(w)

SpecDistinct == Init /\ [][NextDistinct]_vars

\* Commits of every kind, interleaved in every way: completions of one-chunk
\* sessions, single-shot uploads without compression, and group creations.
NextCommit ==
    \/ InitUpload("u1", 1, 5)
    \/ writes = {} /\ ChunkArrive("u1", "0", "A")
    \/ CompleteArrive("u1", FALSE, "c1")
    \/ Continue
    \/ \E code \in Codes : UploadArrive(<<"A">>, FALSE, "r1", code)
    \/ \E u \in singles : UploadCommit(u)
    \/ CreateGroup(<<"c1">>, "c2")

SpecCommit == Init /\ [][NextCommit]_vars

\* Single-shot uploads whose compression succeeds or fails at one of its
\* steps, and the served file with a gunzip stream that fails; each call is
\* handled to its end before the next starts, up to the first record committed.
NextFault ==
    \/ \E body \in FileBodies, optimized \in BOOLEAN :
          Quiet /\ db.files = <<>> /\ UploadArrive(body, optimized, "r1", "c1")
    \/ \E u \in singles : UploadCompressed(u, "c1")
    \/ \E u \in singles, step \in CompressSteps :
          UploadCompressFails(u, "c1", step)
    \/ \E u \in singles : UploadCommit(u)
    \/ \E code \in Codes : Quiet /\ GetFile(code)
    \/ \E code \in Codes, n \in 0..2 : Quiet /\ GetFileGunzipError(code, n)
    \/ \E code \in Codes : Quiet /\ GetDownload(code)
    \/ Quiet /\ Tick

SpecFault == Init /\ [][NextFault]_vars

\* Every operation, with db.json that cannot be read when a commit or a group
\* creation calls getDb(); each call is handled to its end before the next
\* starts.
NextKeep ==
    \/ Quiet /\ InitUpload("u1", 1, 5)
    \/ Quiet /\ ChunkArrive("u1", "0", "A")
    \/ Quiet /\ CompleteArrive("u1", FALSE, "c1")
    \/ Continue
    \/ \E c \in completions : CompleteFinishRead(c, FALSE)
    \/ Quiet /\ UploadArrive(<<"A">>, FALSE, "r1", "c2")
    \/ \E u \in singles, readable \in BOOLEAN : UploadCommitRead(u, readable)
    \/ \E readable \in BOOLEAN :
          Quiet /\ CreateGroupRead(<<"c1">>, "c2", readable)
    \/ \E code \in Codes : Quiet /\ GetFile(code)
    \/ \E code \in Codes : Quiet /\ GetDownload(code)
    \/ Quiet /\ Tick
    \/ Quiet /\ Sweep({})

SpecKeep == Init /\ [][NextKeep]_vars

\* One session; uploads of the same and of different indices with different
\* payloads interleave in every way.
NextRewrite ==
    \/ \E total \in 1..MaxTotalChunks :
          chunkedUploads["u1"] = NoSession /\ InitUpload("u1", total, 5)
    \/ \E idx \in {"0", "1"}, body \in Payloads : ChunkArrive("u1", idx, body)
    \/ \E w \in writes : ChunkWrite(w)
    \/ \E w \in writes : ChunkFinish(w)

SpecRewrite == Init /\ [][NextRewrite]_vars

\* One session of two chunks, A at index 0 and B at index 1, uploaded one at a
\* time; one completion at a time, whose awaits interleave in every way with
\* the clock and the sweep, up to the first record committed. The id is not
\* used again while a completion or a cleanup timer of its former session is
\* pending.
NextAssemble ==
    \/ /\ chunkedUploads["u1"] = NoSession /\ Quiet
       /\ InitUpload("u1", 2, 10)
    \/ writes = {} /\ ChunkArrive("u1", "0", "A")
    \/ writes = {} /\ ChunkArrive("u1", "1", "B")
    \/ completions = {} /\ db.files = <<>> /\ CompleteArrive("u1", FALSE, "c1")
    \/ Continue
    \/ Tick
    \/ Sweep({})

SpecAssemble == Init /\ [][NextAssemble]_vars

\* Sessions that are created, fed and completed or abandoned, with the clock
\* and the sweep. A session is created only while the clock can still pass
\* its retention time. The interval timer keeps firing, time advances, every
\* pending callback runs, and a removal does not throw in every sweep.
NextReclaim ==
    \/ \E id \in UploadIds : now + Retention < MaxTime /\ InitUpload(id, 1, 5)
    \/ writes = {} /\ ChunkArrive("u1", "0", "A")
    \/ completions = {} /\ CompleteArrive("u1", FALSE, "c1")
    \/ Continue
    \/ Tick
    \/ \E failing \in SUBSET UploadIds : Sweep(failing)

SpecReclaim ==
    /\ Init /\ [][NextReclaim]_vars
    /\ WF_vars(Continue)
    /\ WF_vars(Tick)
    /\ WF_vars(Sweep({}))

\* One upload id, initialised again at any time, also while the cleanup timer
\* of its former session is pending; chunk uploads one at a time, with the
\* index written in its decimal form or with a leading zero; one completion
\* at a time.
NextDrift ==
    \/ \E total \in 1..MaxTotalChunks :
          writes = {} /\ completions = {} /\ InitUpload("u1", total, 5)
    \/ \E idx \in {"0", "1", "01"} : writes = {} /\ ChunkArrive("u1", idx, "A")
    \/ completions = {} /\ writes = {} /\ CompleteArrive("u1", FALSE, "c1")
    \/ Continue

SpecDrift == Init /\ [][NextDrift]_vars

\* Records of both upload paths without any fault: single-shot files of a
\* plain and of a gzip content type, compressed or not, and one-chunk sessions
\* completed with and without compression; each call is handled to its end
\* before the next starts, up to the first record committed; then the file is
\* served.
NextRecord ==
    \/ \E size \in FileSizes : Quiet /\ InitUpload("u1", 1, size)
    \/ \E body \in Payloads : Quiet /\ ChunkArrive("u1", "0", body)
    \/ \E compress \in BOOLEAN :
          Quiet /\ db.files = <<>> /\ CompleteArrive("u1", compress, "c1")
    \/ Continue
    \/ \E body \in FileBodies, optimized \in BOOLEAN, mime \in {MimeType, GzipType} :
          Quiet /\ db.files = <<>> /\ UploadArriveAs(body, optimized, "r1", "c1", mime)
    \/ \E u \in singles : UploadCompressed(u, "c1")
    \/ \E u \in singles : UploadCommit(u)
    \/ Quiet /\ GetFile("c1")

SpecRecord == Init /\ [][NextRecord]_vars

\* Single-shot uploads whose commit reads db.json with or without fault, group
\* creations over every list of up to two codes, and group lookups; each call
\* is handled to its end before the next starts.
NextMembers ==
    \/ \E code \in Codes : Quiet /\ UploadArrive(<<"A">>, FALSE, "r1", code)
    \/ \E u \in singles, readable \in BOOLEAN : UploadCommitRead(u, readable)
    \/ \E fileIds \in GroupRequests, readable \in BOOLEAN :
          Quiet /\ CreateGroupRead(fileIds, "c1", readable)
    \/ \E code \in Codes : Quiet /\ GetGroup(code)

SpecMembers == Init /\ [][NextMembers]_vars

\* Both revisions are given the same calls for one upload id, each call after
\* the response to the one before: init, chunks with non-empty payloads and
\* decimal indices none of which is sent twice to a session, completions
\* without compression.
NextBoth ==
    \/ \E total \in 1..MaxTotalChunks :
          writes = {} /\ completions = {} /\ BothInit("u1", total, 5)
    \/ \E idx \in {"0", "1", "2"}, body \in Payloads :
          writes = {} /\ completions = {} /\ BothChunk("u1", idx, body)
    \/ writes = {} /\ completions = {} /\ BothComplete("u1", "c1")
    \/ Continue

SpecBoth == Init /\ [][NextBoth]_vars

\* ----------------------------------------------------------------- claims

\* Every index 0..totalChunks-1 has been accepted at least once.
Covered(s) == \A i \in 0..(s.totalChunks - 1) : i \in s.receivedChunksMap

\* C1: whatever chunk uploads a session has accepted, in whatever order and
\* with whatever indices, a completion call passes the completeness check
\* (it is not answered 400) if and only if every index 0..totalChunks-1 has
\* been accepted at least once.
C1_CompleteIffCovered ==
    [][\A id \in UploadIds, compress \in BOOLEAN, code \in Codes :
          (chunkedUploads[id] # NoSession /\ CompleteArrive(id, compress, code))
          => ((resp'.status # 400) <=> Covered(sessions[chunkedUploads[id]]))]_vars

\* C2: with chunk uploads handled one after another, a chunk whose index is
\* already in the received set is answered with success, duplicate = true and
\* the counts as they were, and the count, the received set and the stored
\* chunks stay as they were.
C2_DuplicateIsIdempotent ==
    [][\A id \in UploadIds, idx \in ChunkIndexStrs, body \in ChunkBodies :
          (/\ chunkedUploads[id] # NoSession
           /\ ParseInt(idx) \in sessions[chunkedUploads[id]].receivedChunksMap
           /\ ChunkArrive(id, idx, body))
          => /\ resp' = [op |-> "chunk", status |-> 200, duplicate |-> TRUE,
                         receivedChunks |->
                             sessions[chunkedUploads[id]].receivedChunks,
                         totalChunks |->
                             sessions[chunkedUploads[id]].totalChunks]
             /\ UNCHANGED <<chunkedUploads, sessions, chunkDirs, writes>>]_vars

\* A duplicate has been acknowledged for a session that holds a chunk.
C2_Witness ==
    /\ \E n \in 1..3, t \in 1..3 :
          resp = [op |-> "chunk", status |-> 200, duplicate |-> TRUE,
                  receivedChunks |-> n, totalChunks |-> t]
    /\ chunkedUploads["u1"] # NoSession
    /\ sessions[chunkedUploads["u1"]].receivedChunksMap # {}

\* C3: for every session in the registry, receivedChunks is the number of
\* indices in receivedChunksMap, however chunk uploads interleave.
C3_CountIsCardinality ==
    \A id \in UploadIds :
        chunkedUploads[id] # NoSession
        => LET s == sessions[chunkedUploads[id]]
           IN s.receivedChunks = Cardinality(s.receivedChunksMap)

\* data is the chunk files 0, 1, ..., n-1 of a chunk directory, in that order.
InIndexOrder(data, files, n) ==
    /\ Len(data) = n
    /\ \A k \in 1..n : /\ ToString(k - 1) \in DOMAIN files
                       /\ data[k] = files[ToString(k - 1)]

\* C4: with calls handled one after another, in whatever order the chunks
\* were uploaded, the artifact of a completion without compression holds, at
\* every moment of the assembly, the stored chunks 0, 1, ... written so far, each
\* whole and in ascending index order, and at the end all of 0..totalChunks-1.
C4_AssembledInIndexOrder ==
    [][/\ \A c \in completions' :
             ~c.gz => InIndexOrder(uploads'[c.name].data,
                                   chunkDirs'[c.id].files, c.i)
       /\ \A c \in completions :
             (CompleteFinish(c) /\ ~c.gz)
             => InIndexOrder(uploads'[c.name].data, chunkDirs[c.id].files,
                             sessions[c.ref].totalChunks)]_vars

\* A two-chunk upload has been assembled from two different chunks.
C4_Witness ==
    \E i \in DOMAIN db.files :
        /\ db.files[i].chunked /\ ~db.files[i].compressed
        /\ uploads[db.files[i].storedFilename].ended
        /\ uploads[db.files[i].storedFilename].data = <<"B", "A">>
        /\ resp.op = "complete" /\ resp.status = 200

\* C5: once a completion of an upload id has succeeded, and until the id is
\* initialised again, the id is not in the registry and a completion call for
\* it is answered 400 'Invalid upload ID', starts no assembly and adds no
\* FileRecord.
C5_SecondCompletionUnknown ==
    [][\A id \in UploadIds :
          /\ evicted'[id] = "completed" => chunkedUploads'[id] = NoSession
          /\ \A compress \in BOOLEAN, code \in Codes :
                (evicted[id] = "completed" /\ CompleteArrive(id, compress, code))
                => /\ resp' = [op |-> "complete", status |-> 400,
                               error |-> "Invalid upload ID"]
                   /\ UNCHANGED <<db, completions, uploads>>]_vars

\* A completion has been refused for an id whose upload was completed.
C5_Witness ==
    /\ evicted["u1"] = "completed"
    /\ Len(db.files) >= 1
    /\ resp = [op |-> "complete", status |-> 400, error |-> "Invalid upload ID"]

\* C6: however completion calls on one session interleave, at most one
\* FileRecord is committed for that session.
C6_CommittedOnce ==
    \A r \in 1..MaxSessions :
        Cardinality({i \in DOMAIN db.files : db.files[i].session = r}) <= 1

\* C7: every code returned by an upload resolves, in GET /api/file/:code, to
\* the FileRecord that upload created.
C7_CodeResolvesToOwnRecord ==
    \A i \in DOMAIN db.files :
        LET r == ResolveAndStream(db, uploads, db.files[i].id)
        IN r.status = 200 => r.served = i

\* C8: no two records of the store, FileRecords and GroupRecords together,
\* have the same code.
C8_CodesUnique ==
    LET ids == [i \in DOMAIN db.files |-> db.files[i].id]
               \o [i \in DOMAIN db.groups |-> db.groups[i].id]
    IN \A i, j \in DOMAIN ids : i # j => ids[i] # ids[j]

\* C9: for every code of a GroupRecord, GET /api/file/:code answers 400 with
\* isGroup = true and the group's member count, and streams nothing.
C9_GroupCodeNeverStreams ==
    \A g \in DOMAIN db.groups :
        LET r == ResolveAndStream(db, uploads, db.groups[g].id)
        IN /\ r.status = 400
           /\ r.isGroup
           /\ r.fileCount = db.groups[g].fileCount

\* C10: a run of the cleanup job removes from the registry every session older
\* than 24 hours whose storage removal does not throw, and removes its chunk
\* directory; from then on, until the id is initialised again, the id is not in
\* the registry and chunk uploads and completions for it are answered 400
\* 'Invalid upload ID' and change nothing.
C10_SweptSessionsUnresolvable ==
    [][\A id \in UploadIds :
          /\ \A failing \in SUBSET UploadIds :
                (/\ Sweep(failing)
                 /\ chunkedUploads[id] # NoSession
                 /\ now - sessions[chunkedUploads[id]].createdAt > Retention
                 /\ id \notin failing)
                => /\ chunkedUploads'[id] = NoSession
                   /\ ~chunkDirs'[id].exists
          /\ evicted'[id] = "swept" => chunkedUploads'[id] = NoSession
          /\ \A idx \in ChunkIndexStrs, body \in ChunkBodies :
                (evicted[id] = "swept" /\ ChunkArrive(id, idx, body))
                => /\ resp' = [op |-> "chunk", status |-> 400,
                               error |-> "Invalid upload ID"]
                   /\ UNCHANGED <<chunkedUploads, sessions, chunkDirs, writes>>
          /\ \A compress \in BOOLEAN, code \in Codes :
                (evicted[id] = "swept" /\ CompleteArrive(id, compress, code))
                => /\ resp' = [op |-> "complete", status |-> 400,
                               error |-> "Invalid upload ID"]
                   /\ UNCHANGED <<chunkedUploads, sessions, db, completions,
                                  uploads>>]_vars

\* A swept session's id has been refused, its chunk directory is gone.
C10_Witness ==
    \E id \in UploadIds :
        /\ evicted[id] = "swept"
        /\ ~chunkDirs[id].exists
        /\ resp.status = 400 /\ resp.error = "Invalid upload ID"

\* C11: a completion call for a session whose receivedChunks differs from
\* totalChunks is answered 400 with the received and the expected count, and
\* leaves the registry, the session, the chunk directories, the artifact
\* directory and the metadata store as they were.
C11_IncompleteIsRefused ==
    [][\A id \in UploadIds, compress \in BOOLEAN, code \in Codes :
          (/\ chunkedUploads[id] # NoSession
           /\ sessions[chunkedUploads[id]].receivedChunks
                  # sessions[chunkedUploads[id]].totalChunks
           /\ CompleteArrive(id, compress, code))
          => /\ resp' = [op |-> "complete", status |-> 400,
                         error |-> "Not all chunks received",
                         received |->
                             sessions[chunkedUploads[id]].receivedChunks,
                         expected |->
                             sessions[chunkedUploads[id]].totalChunks]
             /\ UNCHANGED <<chunkedUploads, sessions, chunkDirs, uploads, db,
                            completions>>]_vars

\* A completion has been refused for a session that holds chunks.
C11_Witness ==
    /\ resp.op = "complete" /\ resp.status = 400
    /\ resp.error = "Not all chunks received"
    /\ resp.received >= 1 /\ resp.received # resp.expected
    /\ chunkedUploads["u1"] # NoSession
    /\ chunkDirs["u1"].files # EmptyFiles

\* C12: a chunk upload or a completion call that names an upload id absent
\* from the registry is answered 400 'Invalid upload ID'; it creates no
\* session, stores no chunk and leaves no file in chunks/temp, starts no
\* assembly, writes no artifact and commits no record, and the sessions of the
\* other ids stay as they were.
C12_UnknownIdRefused ==
    [][\A id \in UploadIds :
          chunkedUploads[id] = NoSession
          => /\ \A idx \in ChunkIndexStrs, body \in ChunkBodies :
                   ChunkArrive(id, idx, body)
                   => /\ resp' = [op |-> "chunk", status |-> 400,
                                  error |-> "Invalid upload ID"]
                      /\ UNCHANGED <<chunkedUploads, sessions, chunkDirs,
                                     writes, temp, completions, uploads, db>>
             /\ \A compress \in BOOLEAN, code \in Codes :
                   CompleteArrive(id, compress, code)
                   => /\ resp' = [op |-> "complete", status |-> 400,
                                  error |-> "Invalid upload ID"]
                      /\ UNCHANGED <<chunkedUploads, sessions, chunkDirs,
                                     writes, temp, completions, uploads, db>>]_vars

\* A chunk has been refused for an unknown id while another id has a session.
C12_Witness ==
    /\ resp = [op |-> "chunk", status |-> 400, error |-> "Invalid upload ID"]
    /\ chunkedUploads["u1"] = NoSession
    /\ chunkedUploads["u2"] # NoSession
    /\ temp = {}

\* C13: a chunk upload with an empty payload, for a registered session and an
\* index not in its received set, is answered 400 'Empty chunk received'; the
\* count, the received set and the chunk directory stay as they were, no write
\* is started and the temp file is removed.
C13_EmptyChunkRefused ==
    [][\A id \in UploadIds, idx \in ChunkIndexStrs :
          (/\ chunkedUploads[id] # NoSession
           /\ ParseInt(idx) \notin sessions[chunkedUploads[id]].receivedChunksMap
           /\ ChunkArrive(id, idx, EmptyPayload))
          => /\ resp' = [op |-> "chunk", status |-> 400,
                         error |-> "Empty chunk received"]
             /\ UNCHANGED <<chunkedUploads, sessions, chunkDirs, writes,
                            temp>>]_vars

\* An empty chunk has been refused for a session that holds another chunk.
C13_Witness ==
    /\ resp = [op |-> "chunk", status |-> 400, error |-> "Empty chunk received"]
    /\ chunkedUploads["u1"] # NoSession
    /\ sessions[chunkedUploads["u1"]].receivedChunks = 1
    /\ chunkDirs["u1"].exists
    /\ \A name \in DOMAIN chunkDirs["u1"].files :
          chunkDirs["u1"].files[name] # EmptyPayload

\* C14: an init call with totalChunks <= 0 fails and creates no session; no
\* session of the registry has totalChunks <= 0, and no completion commits a
\* record for a session that has received no chunk.
C14_NoEmptySessions ==
    [][/\ \A id \in UploadIds, total \in TotalChunksSent, size \in FileSizes :
             (total <= 0 /\ InitUpload(id, total, size))
             => /\ resp'.status # 200
                /\ UNCHANGED <<chunkedUploads, sessions>>
       /\ \A id \in UploadIds :
             chunkedUploads'[id] # NoSession
             => sessions'[chunkedUploads'[id]].totalChunks > 0
       /\ \A c \in completions :
             CompleteFinish(c) => sessions[c.ref].receivedChunks > 0]_vars

\* Chunk file i is not in the chunk directory of id.
Absent(dirs, id, i) ==
    ~dirs[id].exists \/ ToString(i) \notin DOMAIN dirs[id].files

\* C15: with calls handled one after another, the assembly looks for every
\* chunk file 0..totalChunks-1 on disk before it reads it, whatever the
\* counter says: a completion streams chunk i only when the files 0..i are
\* there, it is answered 500 without a code at the lowest index whose file is
\* absent, commits no record then, and a record is committed only when every
\* file 0..totalChunks-1 is there.
C15_FailsAtLowestAbsent ==
    [][/\ \A c \in completions' :
             c.phase = "read"
             => \A k \in 0..c.i : ~Absent(chunkDirs', c.id, k)
       /\ \A c \in completions :
             CompleteFinish(c)
             => \A k \in 0..(sessions[c.ref].totalChunks - 1) :
                   ~Absent(chunkDirs, c.id, k)
       /\ \A id \in UploadIds, compress \in BOOLEAN, code \in Codes :
             (/\ chunkedUploads[id] # NoSession
              /\ sessions[chunkedUploads[id]].receivedChunks
                     = sessions[chunkedUploads[id]].totalChunks
              /\ sessions[chunkedUploads[id]].totalChunks > 0
              /\ Absent(chunkDirs, id, 0)
              /\ CompleteArrive(id, compress, code))
             => /\ resp' = [op |-> "complete", status |-> 500,
                            error |-> "Failed to complete upload"]
                /\ UNCHANGED <<db, completions>>
       /\ \A c \in completions :
             (/\ CombineStep(c)
              /\ c.i + 1 < sessions[c.ref].totalChunks
              /\ Absent(chunkDirs, c.id, c.i + 1))
             => /\ resp' = [op |-> "complete", status |-> 500,
                            error |-> "Failed to complete upload"]
                /\ completions' = completions \ {c}
                /\ UNCHANGED db]_vars

\* A completion of a two-chunk session has failed at chunk 1, after chunk 0.
C15_Witness ==
    /\ resp = [op |-> "complete", status |-> 500,
               error |-> "Failed to complete upload"]
    /\ chunkedUploads["u1"] # NoSession
    /\ sessions[chunkedUploads["u1"]].totalChunks = 2
    /\ ~Absent(chunkDirs, "u1", 0)
    /\ Absent(chunkDirs, "u1", 1)
    /\ db.files = <<>>

\* C16: when a completion call fails after its output file was opened, the
\* artifact directory holds no file under the name that call created once the
\* call has been answered.
C16_FailedOutputDiscarded ==
    [][/\ \A id \in UploadIds, compress \in BOOLEAN, code \in Codes :
             (CompleteArrive(id, compress, code) /\ resp'.status = 500)
             => ChunkedName(now, code, compress) \notin DOMAIN uploads'
       /\ \A c \in completions :
             (CombineStep(c) /\ resp'.status = 500)
             => c.name \notin DOMAIN uploads']_vars

\* C17: a completion call that fails, with 400 for an incomplete upload or
\* with 500 during the assembly, leaves the registry entry of its upload id
\* and the session it names, with its count and received set, as they were.
C17_FailureKeepsSession ==
    [][\A id \in UploadIds :
          chunkedUploads[id] # NoSession
          => /\ \A compress \in BOOLEAN, code \in Codes :
                   (CompleteArrive(id, compress, code)
                    /\ resp'.status \in {400, 500})
                   => /\ chunkedUploads'[id] = chunkedUploads[id]
                      /\ sessions'[chunkedUploads[id]]
                             = sessions[chunkedUploads[id]]
             /\ \A c \in completions :
                   (c.id = id /\ CombineStep(c) /\ resp'.status = 500)
                   => /\ chunkedUploads'[id] = chunkedUploads[id]
                      /\ sessions'[chunkedUploads[id]]
                             = sessions[chunkedUploads[id]]]_vars

\* A completion has failed in the assembly and its session, whose count is
\* full, is still in the registry.
C17_Witness ==
    /\ resp = [op |-> "complete", status |-> 500,
               error |-> "Failed to complete upload"]
    /\ chunkedUploads["u1"] # NoSession
    /\ sessions[chunkedUploads["u1"]].receivedChunks
           = sessions[chunkedUploads["u1"]].totalChunks
    /\ sessions[chunkedUploads["u1"]].receivedChunksMap # {}

\* C18: the removal of the chunk directory that a successful completion
\* schedules never deletes chunks of a session created afterwards under the
\* same upload id: when the timer runs while the id is in the registry again,
\* every chunk that session has received is still on disk after it.
C18_CleanupSparesNewSession ==
    [][\A id \in UploadIds :
          (CleanupTimer(id) /\ chunkedUploads[id] # NoSession)
          => \A i \in sessions[chunkedUploads[id]].receivedChunksMap :
                ~Absent(chunkDirs', id, i)]_vars

C20_CompressedIsSmaller ==
    \A i \in DOMAIN db.files :
        db.files[i].compressed => db.files[i].size < db.files[i].originalSize

\* Some FileRecord has the id.
Present(files, id) == \E i \in DOMAIN files : files[i].id = id

\* C21: a group creation with a non-empty list of file ids is answered 404
\* naming the first id of the list, in list order, that no FileRecord has, and
\* then leaves db.files and db.groups as they were; when every id is present
\* it appends exactly one GroupRecord, whose fileIds are the list in its order
\* and whose fileCount is the length of the list, and leaves db.files alone.
C21_GroupNeedsEveryFile ==
    [][\A fileIds \in GroupRequests, code \in Codes :
          (fileIds # <<>> /\ CreateGroup(fileIds, code))
          => LET absent == {k \in 1..Len(fileIds) :
                               ~Present(db.files, fileIds[k])}
             IN IF absent # {}
                THEN /\ resp' = [op |-> "group", status |-> 404,
                                 missing |-> fileIds[MinOf(absent)]]
                     /\ UNCHANGED db
                ELSE /\ db'.files = db.files
                     /\ db'.groups = Append(db.groups,
                            [id |-> code, fileIds |-> fileIds,
                             fileCount |-> Len(fileIds)])
                     /\ resp' = [op |-> "group", status |-> 201,
                                 groupCode |-> code,
                                 fileCount |-> Len(fileIds)]]_vars

\* A group creation has been refused for the absent id c2 while c1 is present.
C21_Witness ==
    /\ resp = [op |-> "group", status |-> 404, missing |-> "c2"]
    /\ Present(db.files, "c1")
    /\ ~Present(db.files, "c2")
    /\ db.groups = <<>>

\* C22: when a code resolves to a FileRecord whose artifact is not in the
\* artifact directory, GET /api/file/:code and GET /api/download/:code both
\* answer 404 'File not found on server', serve no bytes and leave the store
\* and the artifact directory as they were.
C22_MissingArtifactIs404 ==
    [][\A code \in Codes :
          (/\ Present(db.files, code)
           /\ db.files[Find(db.files, code)].storedFilename
                  \notin DOMAIN uploads)
          => /\ GetFile(code)
                => /\ resp' = [op |-> "file", status |-> 404,
                               error |-> "File not found on server"]
                   /\ UNCHANGED <<db, uploads>>
             /\ GetDownload(code)
                => /\ resp' = [op |-> "download", status |-> 404,
                               error |-> "File not found on server"]
                   /\ UNCHANGED <<db, uploads>>]_vars

\* The information of a record has been refused because its artifact is gone,
\* while another record's artifact is still there.
C22_Witness ==
    /\ resp = [op |-> "download", status |-> 404,
               error |-> "File not found on server"]
    /\ Len(db.files) = 2
    /\ \E i \in DOMAIN db.files : db.files[i].storedFilename \in DOMAIN uploads
    /\ \E i \in DOMAIN db.files : db.files[i].storedFilename \notin DOMAIN uploads

\* C23: every completion call that was taken up is answered in the end, by a
\* success or by an error, also when the output write stream or the gzip
\* stream emits an error during the assembly: no call stays pending for ever.
C23_EveryCompletionAnswered ==
    \A t \in 1..MaxCompletions :
        (\E c \in completions : c.tag = t)
            ~> (\A c \in completions : c.tag # t)

\* C24: when the chunk uploads of one session have pairwise distinct in-range
\* indices, then however their arrivals, writes and finishes interleave, every
\* finish adds one to receivedChunks and its index to the received set, the
\* chunk file of a finished upload holds the payload sent for its index and
\* is not changed afterwards, and once no write is in flight receivedChunks
\* is the number of uploads and the received set is exactly their indices.
C24_DistinctChunksAllCounted ==
    [][\A id \in UploadIds :
          chunkedUploads[id] # NoSession
          => LET s == sessions[chunkedUploads[id]]
                 t == sessions'[chunkedUploads[id]]
             IN /\ \A w \in writes :
                      ChunkFinish(w)
                      => /\ ParseInt(w.chunkIndex) \notin s.receivedChunksMap
                         /\ t.receivedChunks = s.receivedChunks + 1
                         /\ t.receivedChunksMap
                                = s.receivedChunksMap \cup {ParseInt(w.chunkIndex)}
                         /\ ~Absent(chunkDirs', id, ParseInt(w.chunkIndex))
                         /\ chunkDirs'[id].files[w.chunkIndex] = w.body
                /\ \A i \in s.receivedChunksMap :
                      /\ ~Absent(chunkDirs', id, i)
                      /\ chunkDirs'[id].files[ToString(i)]
                             = chunkDirs[id].files[ToString(i)]
                /\ writes' = {}
                   => /\ t.receivedChunks = Cardinality(t.receivedChunksMap)
                      /\ t.receivedChunksMap
                             = {ParseInt(n) : n \in DOMAIN chunkDirs'[id].files}]_vars

\* Two chunks with different payloads have been stored and counted.
C24_Witness ==
    /\ writes = {}
    /\ chunkedUploads["u1"] # NoSession
    /\ sessions[chunkedUploads["u1"]].receivedChunks = 2
    /\ sessions[chunkedUploads["u1"]].receivedChunksMap = {0, 1}
    /\ chunkDirs["u1"].files["0"] = "A"
    /\ chunkDirs["u1"].files["1"] = "B"
    /\ resp = [op |-> "chunk", status |-> 200, receivedChunks |-> 2,
               totalChunks |-> 2, duplicate |-> FALSE]

\* The list a is the beginning of the list b.
IsPrefix(a, b) == Len(a) <= Len(b) /\ \A i \in 1..Len(a) : b[i] = a[i]

C26_SweepSurvivesFailure ==
    [][\A failing \in SUBSET UploadIds :
          (failing # {} /\ Sweep(failing)) =>
             \A id \in UploadIds :
                (/\ chunkedUploads[id] # NoSession
                 /\ Expired(sessions[chunkedUploads[id]], now)) =>
                   IF id \in failing
                   THEN /\ chunkedUploads'[id] = chunkedUploads[id]
                        /\ chunkedUploads'[id] \in DOMAIN sessions'
                        /\ sessions'[chunkedUploads'[id]] = sessions[chunkedUploads[id]]
                        /\ Expired(sessions'[chunkedUploads'[id]], now')
                        /\ evicted'[id] = evicted[id]
                   ELSE /\ chunkedUploads'[id] = NoSession
                        /\ chunkDirs'[id] = NoDir]_vars

\* Two sessions were expired in one sweep: the removal of u2 threw and u2 is
\* still registered and expired, while u1 was removed.
C26_Witness ==
    /\ evicted["u1"] = "swept"
    /\ chunkedUploads["u1"] = NoSession
    /\ chunkedUploads["u2"] # NoSession
    /\ Expired(sessions[chunkedUploads["u2"]], now)
    /\ sessions[chunkedUploads["u2"]].createdAt = 0
    /\ now = Retention + 1

\* C27: when the gunzip stream fails while a compressed record is served,
\* before or after the first decompressed bytes were sent, the response is
\* ended and its body is the raw stored bytes, sent with the stored content
\* type.
C27_GunzipFailureFallsBack ==
    [][\A code \in Codes, n \in 0..2 :
          GetFileGunzipError(code, n) =>
             LET rec == db.files[Find(db.files, code)]
                 a == Artifact(uploads, rec.storedFilename)
             IN /\ resp'.ended
                /\ resp'.body = [gz |-> a.gz, data |-> a.data]
                /\ resp'.contentType = rec.mimetype]_vars

\* C28: a single-shot upload whose compression failed at any step is committed
\* as a record with compressed = false whose artifact exists and holds the
\* uploaded bytes uncompressed, with the uploaded content type and size.
C28_FailedCompressionKeepsOriginal ==
    [][\A u \in singles :
          (u.failedAt # "" /\ UploadCommit(u)) =>
             LET rec == db'.files[Len(db'.files)] IN
             /\ ~rec.compressed
             /\ ArtifactExists(uploads', rec.storedFilename)
             /\ Artifact(uploads', rec.storedFilename)
                   = [gz |-> FALSE, data |-> u.body, ended |-> TRUE]
             /\ rec.mimetype = MimeType
             /\ rec.size = RawSize(u.body)]_vars

\* C29: no step removes or changes a record of db.files or db.groups: the
\* records of the store before a step are the first records of the store after
\* it.
C29_RecordsOnlyGrow ==
    [][/\ Len(db'.files) >= Len(db.files)
       /\ Len(db'.groups) >= Len(db.groups)
       /\ \A i \in 1..Len(db.files) : db'.files[i] = db.files[i]
       /\ \A i \in 1..Len(db.groups) : db'.groups[i] = db.groups[i]]_vars

\* C30: while a session stays in the registry, the bytes stored for an index
\* of its received set are the same after every step, whatever uploads
\* interleave.
C30_ReceivedChunkBytesFixed ==
    [][\A id \in UploadIds :
          (chunkedUploads[id] # NoSession /\ chunkedUploads'[id] = chunkedUploads[id]) =>
             \A i \in sessions[chunkedUploads[id]].receivedChunksMap :
                ToString(i) \in DOMAIN chunkDirs[id].files =>
                   /\ ToString(i) \in DOMAIN chunkDirs'[id].files
                   /\ chunkDirs'[id].files[ToString(i)]
                         = chunkDirs[id].files[ToString(i)]]_vars

\* C31: with a sweep at any point of a completion, every committed record has
\* an artifact that is ended and holds chunk 0 then chunk 1; a completion that
\* answers 500 commits nothing; and the finish of a completion whose session
\* the sweep has already evicted answers 200 like any other.
C31_SweepNeverTruncates ==
    [][/\ \A i \in 1..Len(db'.files) :
             /\ db'.files[i].storedFilename \in DOMAIN uploads'
             /\ uploads'[db'.files[i].storedFilename]
                   = [gz |-> FALSE, data |-> <<"A", "B">>, ended |-> TRUE]
       /\ (resp'.op = "complete" /\ resp'.status # 200) => db' = db
       /\ \A c \in completions :
             CompleteFinish(c) =>
                /\ resp'.status = 200
                /\ chunkedUploads'[c.id] = NoSession
                /\ Len(db'.files) = Len(db.files) + 1]_vars

\* A completion has answered 200 although the sweep had evicted its session
\* and removed the chunk directory while it waited for the output to be flushed:
\* the directory is gone and the completion's own cleanup timer has not run yet.
C31_Witness ==
    /\ resp.op = "complete" /\ resp.status = 200
    /\ ~chunkDirs["u1"].exists
    /\ cleanups["u1"] > 0
    /\ db.files # <<>>

\* C32: a sweep in which no removal throws evicts a registered session exactly
\* when now - createdAt is above 24 hours, chunks accepted since or still being
\* written making no difference; a session of 24 hours or less keeps its entry,
\* its fields and its chunk directory, and the metadata store and the artifact
\* directory are as before.
C32_SweepEvictsExactlyTheOld ==
    [][Sweep({}) =>
          /\ \A id \in UploadIds :
                chunkedUploads[id] # NoSession =>
                   IF now - sessions[chunkedUploads[id]].createdAt > Retention
                   THEN /\ chunkedUploads'[id] = NoSession
                        /\ chunkDirs'[id] = NoDir
                   ELSE /\ chunkedUploads'[id] = chunkedUploads[id]
                        /\ chunkedUploads'[id] \in DOMAIN sessions'
                        /\ sessions'[chunkedUploads'[id]] = sessions[chunkedUploads[id]]
                        /\ chunkDirs'[id] = chunkDirs[id]
          /\ \A id \in UploadIds :
                chunkedUploads[id] = NoSession =>
                   chunkedUploads'[id] = NoSession /\ chunkDirs'[id] = chunkDirs[id]
          /\ db' = db
          /\ uploads' = uploads]_vars

\* A session older than 24 hours was swept while one of its chunks was still
\* being written, and a session of exactly 24 hours was left in the registry.
C32_Witness ==
    /\ evicted["u1"] = "swept"
    /\ chunkedUploads["u1"] = NoSession
    /\ \E w \in writes : w.id = "u1"
    /\ chunkedUploads["u2"] # NoSession
    /\ now - sessions[chunkedUploads["u2"]].createdAt = Retention

\* C33: every session in the registry is removed from it in the end, and its
\* chunk directory is gone then: whether it was completed or abandoned, no
\* upload id stays registered for ever.
C33_EverySessionReclaimed ==
    \A id \in UploadIds :
        (chunkedUploads[id] # NoSession)
           ~> (chunkedUploads[id] = NoSession /\ ~chunkDirs[id].exists)

\* A session that stored a chunk and was never completed has been swept with
\* its chunk directory.
C33_Witness ==
    /\ evicted["u1"] = "swept"
    /\ chunkedUploads["u1"] = NoSession
    /\ ~chunkDirs["u1"].exists
    /\ db.files = <<>>
    /\ temp = {} /\ writes = {}
    /\ now = MaxTime

\* C34: whenever no chunk write is in flight, every index in the received set
\* of a registered session has its chunk file, named by the decimal form of
\* the index, in the session's chunk directory.
C34_ReceivedChunksOnDisk ==
    writes = {} =>
       \A id \in UploadIds :
          chunkedUploads[id] # NoSession =>
             \A i \in sessions[chunkedUploads[id]].receivedChunksMap :
                ChunkExists(chunkDirs, id, i)

\* What further chunk uploads can still achieve for a session: an upload is
\* discarded when its index is in the received set and adds one to the count
\* otherwise, so the session can still be completed only if no chunk that is
\* absent from disk is in the set and the count leaves room for the absent ones.
CanStillComplete(s, dirs, id) ==
    LET missing == {i \in 0..(s.totalChunks - 1) : ~ChunkExists(dirs, id, i)} IN
    /\ missing \cap s.receivedChunksMap = {}
    /\ s.receivedChunks + Cardinality(missing) <= s.totalChunks

\* C35: a session that is still registered after its completion was refused
\* or failed can be completed by further chunk uploads.
C35_FailedSessionRecoverable ==
    \A id \in UploadIds :
       (/\ resp.op = "complete" /\ resp.status \in {400, 500}
        /\ chunkedUploads[id] # NoSession)
       => CanStillComplete(sessions[chunkedUploads[id]], chunkDirs, id)

\* C36: in every committed record, compressed, a non-null originalSize, a
\* non-null originalMimetype, the mimetype application/gzip and a non-null
\* compressionRatio go together; and a record that is not compressed carries
\* the content type the client declared and an artifact that is served as it
\* is stored.
C36_RecordFieldsAgree ==
    \A i \in 1..Len(db.files) :
       LET r == db.files[i] IN
       /\ r.compressed <=> (r.originalSize # Null)
       /\ r.compressed <=> (r.originalMimetype # "")
       /\ r.compressed <=> (r.mimetype = GzipType)
       /\ r.compressed <=> r.compressionRatio
       /\ ~r.compressed =>
             /\ r.mimetype = r.declared
             /\ ArtifactExists(uploads, r.storedFilename)
             /\ ResolveAndStream(db, uploads, r.id).body
                   = [gz |-> Artifact(uploads, r.storedFilename).gz,
                      data |-> Artifact(uploads, r.storedFilename).data]

\* C37: in every state, every id in the fileIds of every GroupRecord is the id
\* of a FileRecord of the store and the group's fileCount is the length of its
\* fileIds; and the group lookup of a code that a group has answers 200 with
\* that group's stored fileCount and one entry per member id, in order.
C37_GroupMembersExist ==
    /\ \A g \in 1..Len(db.groups) :
          /\ \A k \in 1..Len(db.groups[g].fileIds) :
                Present(db.files, db.groups[g].fileIds[k])
          /\ db.groups[g].fileCount = Len(db.groups[g].fileIds)
    /\ \A code \in Codes :
          Find(db.groups, code) # 0 =>
             LET grp == db.groups[Find(db.groups, code)]
                 r == ResolveGroup(db, code)
             IN /\ r.status = 200
                /\ r.fileCount = grp.fileCount
                /\ Len(r.files) = Len(grp.fileIds)
                /\ \A k \in 1..Len(r.files) :
                      k \in 1..Len(grp.fileIds) /\ r.files[k].id = grp.fileIds[k]

\* The lookup of a group of two members has answered with two entries.
C37_Witness ==
    /\ resp.op = "groupinfo" /\ resp.status = 200
    /\ resp.fileCount = 2
    /\ Len(db.groups) = 1
    /\ db.groups[1].fileIds = <<"c2", "c1">>

\* C38: whenever this revision answers an init, chunk or completion call, the
\* older revision has answered the same call with the same outcome, success
\* or failure; a successful chunk upload reports the same received count in
\* both, and a successful completion has assembled the same chunks in the same
\* order in both.
C38_RevisionsAgree ==
    [][resp'.op \in {"init", "chunk", "complete"} =>
          /\ legacy'.resp.op = resp'.op
          /\ (resp'.status = 200) <=> (legacy'.resp.status = 200)
          /\ (resp'.op = "chunk" /\ resp'.status = 200)
             => resp'.receivedChunks = legacy'.resp.receivedChunks
          /\ (resp'.op = "complete" /\ resp'.status = 200)
             => \A c \in completions :
                   CompleteFinish(c) => c.out = legacy'.resp.data]_vars
====
